---- MODULE Spec2Model ----
(***************************************************************************)
(* Model of escodegen/acornwalk/walk.py: the default dispatch table Base,  *)
(* the walks simple, ancestor, full, fullAncestor and recursive, the       *)
(* override-builder make and the four position queries.                    *)
(*                                                                         *)
(* A walk is a recursion of the continuation c through the table.  The     *)
(* Python call stack is kept as an explicit work stack: a "call" item is a *)
(* pending invocation c(node, st, override); a "post" item is the part of  *)
(* c that runs after the table entry has returned.  A table entry only     *)
(* reads the (read-only) tree, so the calls it makes are a function of the *)
(* node: BaseEntry gives them in order.                                    *)
(***************************************************************************)
EXTENDS Integers, Sequences, FiniteSets, TLC

\* Python's None, for node references (node ids start at 1).
None == 0
\* Python's None, for the optional start / end offsets of findNodeAt.
NoPos == 0 - 1
\* No override tag: c(node, st) / override=None.  Falsy, as None is.
NoTag == ""
\* The builtin `type`, which lines 105, 162 and 182 use as the table key.
BuiltinType == "<class 'type'>"

\* Bounds of the model.
MaxDepth == 2
MaxVisitors == 2

(***************************************************************************)
(* AST nodes.  A node has its type tag, its span, its single-child fields  *)
(* f, its child-list fields l and its boolean flags b.                     *)
(***************************************************************************)
Node(type, start, end, f, l, b) ==
  [type |-> type, start |-> start, end |-> end, f |-> f, l |-> l, b |-> b]

Leaf(type, start, end) == Node(type, start, end, <<>>, <<>>, <<>>)

\* The program of walk.py lines 558-563:
\*   \nlet test = "hey";\nfunction ok() {\n    alert(23)\n}\n
TreeExample ==
  << Node("Program", 0, 51, <<>>, [body |-> <<2, 6>>], <<>>),
     Node("VariableDeclaration", 1, 18, <<>>, [declarations |-> <<3>>], <<>>),
     Node("VariableDeclarator", 5, 17, [id |-> 4, init |-> 5], <<>>, <<>>),
     Leaf("Identifier", 5, 9),
     Leaf("Literal", 12, 17),
     Node("FunctionDeclaration", 19, 50, [id |-> 7, body |-> 8],
          [params |-> <<>>], [expression |-> FALSE]),
     Leaf("Identifier", 28, 30),
     Node("BlockStatement", 33, 50, <<>>, [body |-> <<9>>], <<>>),
     Node("ExpressionStatement", 39, 48, [expression |-> 10], <<>>, <<>>),
     Node("CallExpression", 39, 48, [callee |-> 11], [arguments |-> <<12>>], <<>>),
     Leaf("Identifier", 39, 44),
     Leaf("Literal", 45, 47) >>

\*   switch (x) { case 1: y; }
TreeSwitch ==
  << Node("Program", 0, 25, <<>>, [body |-> <<2>>], <<>>),
     Node("SwitchStatement", 0, 25, [discriminant |-> 3], [cases |-> <<4>>], <<>>),
     Leaf("Identifier", 8, 9),
     Node("SwitchCase", 13, 23, [test |-> 5], [consequent |-> <<6>>], <<>>),
     Leaf("Literal", 18, 19),
     Node("ExpressionStatement", 21, 23, [expression |-> 7], <<>>, <<>>),
     Leaf("Identifier", 21, 22) >>

\*   let {[k]: b, ...r} = c;
TreePattern ==
  << Node("Program", 0, 23, <<>>, [body |-> <<2>>], <<>>),
     Node("VariableDeclaration", 0, 23, <<>>, [declarations |-> <<3>>], <<>>),
     Node("VariableDeclarator", 4, 22, [id |-> 4, init |-> 10], <<>>, <<>>),
     Node("ObjectPattern", 4, 18, <<>>, [properties |-> <<5, 8>>], <<>>),
     Node("Property", 5, 11, [key |-> 6, value |-> 7], <<>>, [computed |-> TRUE]),
     Leaf("Identifier", 6, 7),
     Leaf("Identifier", 10, 11),
     Node("RestElement", 13, 17, [argument |-> 9], <<>>, <<>>),
     Leaf("Identifier", 16, 17),
     Leaf("Identifier", 21, 22) >>

\*   x; ;
TreeEmpty ==
  << Node("Program", 0, 4, <<>>, [body |-> <<2, 4>>], <<>>),
     Node("ExpressionStatement", 0, 2, [expression |-> 3], <<>>, <<>>),
     Leaf("Identifier", 0, 1),
     Leaf("EmptyStatement", 3, 4) >>

\*   for (var i = 0; i < n; i++) { if (a) b; else c.d = e; }
TreeFor ==
  << Node("Program", 0, 55, <<>>, [body |-> <<2>>], <<>>),
     Node("ForStatement", 0, 55,
          [init |-> 3, test |-> 7, update |-> 10, body |-> 12], <<>>, <<>>),
     Node("VariableDeclaration", 5, 14, <<>>, [declarations |-> <<4>>], <<>>),
     Node("VariableDeclarator", 9, 14, [id |-> 5, init |-> 6], <<>>, <<>>),
     Leaf("Identifier", 9, 10),
     Leaf("Literal", 13, 14),
     Node("BinaryExpression", 16, 21, [left |-> 8, right |-> 9], <<>>, <<>>),
     Leaf("Identifier", 16, 17),
     Leaf("Identifier", 20, 21),
     Node("UpdateExpression", 23, 26, [argument |-> 11], <<>>, <<>>),
     Leaf("Identifier", 23, 24),
     Node("BlockStatement", 28, 55, <<>>, [body |-> <<13>>], <<>>),
     Node("IfStatement", 30, 53,
          [test |-> 14, consequent |-> 15, alternate |-> 17], <<>>, <<>>),
     Leaf("Identifier", 34, 35),
     Node("ExpressionStatement", 37, 39, [expression |-> 16], <<>>, <<>>),
     Leaf("Identifier", 37, 38),
     Node("ExpressionStatement", 45, 53, [expression |-> 18], <<>>, <<>>),
     Node("AssignmentExpression", 45, 52, [left |-> 19, right |-> 22], <<>>, <<>>),
     Node("MemberExpression", 45, 48, [object |-> 20, property |-> 21], <<>>,
          [computed |-> FALSE]),
     Leaf("Identifier", 45, 46),
     Leaf("Identifier", 47, 48),
     Leaf("Identifier", 51, 52) >>

\* d nested blocks around one expression statement, after one blank; the
\* span of the program is that of its tokens:   { { x; } }
TreeNest(d) ==
  [i \in 1..(d + 3) |->
     IF i = 1 THEN Node("Program", 1, 2 * d + 4, <<>>, [body |-> <<2>>], <<>>)
     ELSE IF i <= d + 1
       THEN Node("BlockStatement", i - 1, 2 * d + 5 - i, <<>>,
                 [body |-> <<i + 1>>], <<>>)
     ELSE IF i = d + 2
       THEN Node("ExpressionStatement", d + 1, d + 3,
                 [expression |-> d + 3], <<>>, <<>>)
     ELSE Leaf("Identifier", d + 1, d + 2)]

Trees ==
  {TreeExample, TreeSwitch, TreePattern, TreeEmpty, TreeFor}
    \cup {TreeNest(d) : d \in 0..MaxDepth}

Root == 1

(***************************************************************************)
(* The dispatch table.                                                     *)
(***************************************************************************)
Ok(calls) == [raise |-> "", calls |-> calls]
Raise(exc) == [raise |-> exc, calls |-> <<>>]

\* c(x, st, tag)
Call(x, tag) == << <<x, tag>> >>
\* if x: c(x, st, tag)
Opt(x, tag) == IF x # None THEN Call(x, tag) ELSE <<>>
\* for x in xs: c(x, st, tag)
Each(xs, tag) == [i \in 1..Len(xs) |-> <<xs[i], tag>>]
\* for x in xs: if x: c(x, st, tag)
EachPresent(xs, tag) == Each(SelectSeq(xs, LAMBDA x : x # None), tag)

\* skipThrough(node, st, c), lines 196-197
skipThrough(tree, n) == Call(n, NoTag)
\* ignore(_node, _st, _c), lines 199-200
ignore(tree, n) == <<>>

\* The loop body of Base.SwitchStatement, lines 262-266, and the body of
\* Base.SwitchCase, lines 269-272.
CaseCalls(tree, cs) ==
  Opt(tree[cs].f.test, "Expression") \o Each(tree[cs].l.consequent, "Statement")

RECURSIVE CasesCalls(_, _)
CasesCalls(tree, cases) ==
  IF cases = <<>> THEN <<>>
  ELSE CaseCalls(tree, Head(cases)) \o CasesCalls(tree, Tail(cases))

\* The loop body of Base.ObjectPattern, lines 384-388.
PropCalls(tree, prop) ==
  IF tree[prop].type = "Property"
    THEN (IF tree[prop].b.computed THEN Call(tree[prop].f.key, "Expression") ELSE <<>>)
  ELSE IF tree[prop].type = "RestElement"
    THEN Call(tree[prop].f.argument, "Pattern")
  ELSE <<>>

RECURSIVE PropsCalls(_, _)
PropsCalls(tree, props) ==
  IF props = <<>> THEN <<>>
  ELSE PropCalls(tree, Head(props)) \o PropsCalls(tree, Tail(props))

\* The body of Base.ExportNamedDeclaration / ExportDefaultDeclaration.
ExportCalls(tree, n) ==
  LET d == tree[n].f.declaration IN
  (IF d # None
     THEN Call(d, IF tree[n].type = "ExportNamedDeclaration"
                     \/ ("id" \in DOMAIN tree[d].f /\ tree[d].f.id # None)
                  THEN "Statement" ELSE "Expression")
     ELSE <<>>)
  \o Opt(tree[n].f.source, "Expression")

\* The body of MethodDefinition / PropertyDefinition / Property.
KeyValueCalls(tree, n) ==
  (IF tree[n].b.computed THEN Call(tree[n].f.key, "Expression") ELSE <<>>)
  \o Opt(tree[n].f.value, "Expression")

\* The tags class Base defines a method for, lines 214-554.
BaseTags ==
  {"Program", "BlockStatement", "StaticBlock", "Statement", "EmptyStatement",
   "ExpressionStatement", "ParenthesizedExpression", "ChainExpression",
   "IfStatement", "LabeledStatement", "BreakStatement", "ContinueStatement",
   "WithStatement", "SwitchStatement", "SwitchCase", "ReturnStatement",
   "YieldExpression", "AwaitExpression", "ThrowStatement", "SpreadElement",
   "TryStatement", "CatchClause", "WhileStatement", "DoWhileStatement",
   "ForStatement", "ForInStatement", "ForOfStatement", "ForInit",
   "DebuggerStatement", "FunctionDeclaration", "VariableDeclaration",
   "VariableDeclarator", "Function", "Pattern", "VariablePattern",
   "MemberPattern", "RestElement", "ArrayPattern", "ObjectPattern",
   "Expression", "ThisExpression", "Super", "MetaProperty", "ArrayExpression",
   "ObjectExpression", "FunctionExpression", "ArrowFunctionExpression",
   "SequenceExpression", "TemplateLiteral", "TemplateElement",
   "UnaryExpression", "UpdateExpression", "BinaryExpression",
   "LogicalExpression", "AssignmentExpression", "AssignmentPattern",
   "ConditionalExpression", "NewExpression", "CallExpression",
   "MemberExpression", "ExportNamedDeclaration", "ExportDefaultDeclaration",
   "ExportAllDeclaration", "ImportDeclaration", "ImportExpression",
   "ImportSpecifier", "ImportDefaultSpecifier", "ImportNamespaceSpecifier",
   "Identifier", "PrivateIdentifier", "Literal", "TaggedTemplateExpression",
   "ClassDeclaration", "ClassExpression", "Class", "ClassBody",
   "MethodDefinition", "PropertyDefinition", "Property"}

\* Base.<tag>(node, st, c): the calls of c the method makes, in order, or the
\* exception the invocation raises.
BaseEntry(tag, tree, n) ==
  LET f == tree[n].f
      l == tree[n].l
      b == tree[n].b
  IN
  CASE tag \in {"Program", "BlockStatement", "StaticBlock"} ->
         Ok(Each(l.body, "Statement"))
    [] tag = "Statement" -> Ok(skipThrough(tree, n))
    \* def EmptyStatement(): takes no parameters, is called with three
    [] tag = "EmptyStatement" -> Raise("TypeError")
    [] tag \in {"ExpressionStatement", "ParenthesizedExpression", "ChainExpression"} ->
         Ok(Call(f.expression, "Expression"))
    [] tag = "IfStatement" ->
         Ok(Call(f.test, "Expression") \o Call(f.consequent, "Statement")
            \o Opt(f.alternate, "Statement"))
    [] tag = "LabeledStatement" -> Ok(Call(f.body, "Statement"))
    [] tag \in {"BreakStatement", "ContinueStatement", "DebuggerStatement"} ->
         Ok(ignore(tree, n))
    [] tag = "WithStatement" ->
         Ok(Call(f.object, "Expression") \o Call(f.body, "Statement"))
    [] tag = "SwitchStatement" ->
         Ok(Call(f.discriminant, "Expression") \o CasesCalls(tree, l.cases))
    [] tag = "SwitchCase" -> Ok(CaseCalls(tree, n))
    [] tag \in {"ReturnStatement", "YieldExpression", "AwaitExpression"} ->
         Ok(Opt(f.argument, "Expression"))
    [] tag \in {"ThrowStatement", "SpreadElement"} ->
         Ok(Call(f.argument, "Expression"))
    [] tag = "TryStatement" ->
         Ok(Call(f.block, "Statement") \o Opt(f.handler, NoTag)
            \o Opt(f.finalizer, "Statement"))
    [] tag = "CatchClause" ->
         Ok(Opt(f.param, "Pattern") \o Call(f.body, "Statement"))
    [] tag \in {"WhileStatement", "DoWhileStatement"} ->
         Ok(Call(f.test, "Expression") \o Call(f.body, "Statement"))
    [] tag = "ForStatement" ->
         Ok(Opt(f.init, "ForInit") \o Opt(f.test, "Expression")
            \o Opt(f.update, "Expression") \o Call(f.body, "Statement"))
    [] tag \in {"ForInStatement", "ForOfStatement"} ->
         Ok(Call(f.left, "ForInit") \o Call(f.right, "Expression")
            \o Call(f.body, "Statement"))
    [] tag = "ForInit" ->
         Ok(IF tree[n].type = "VariableDeclaration"
              THEN Call(n, NoTag) ELSE Call(n, "Expression"))
    [] tag \in {"FunctionDeclaration", "FunctionExpression", "ArrowFunctionExpression"} ->
         Ok(Call(n, "Function"))
    [] tag = "VariableDeclaration" -> Ok(Each(l.declarations, NoTag))
    [] tag = "VariableDeclarator" ->
         Ok(Call(f.id, "Pattern") \o Opt(f.init, "Expression"))
    [] tag = "Function" ->
         Ok(Opt(f.id, "Pattern") \o Each(l.params, "Pattern")
            \o Call(f.body, IF b.expression THEN "Expression" ELSE "Statement"))
    [] tag = "Pattern" ->
         Ok(IF tree[n].type = "Identifier" THEN Call(n, "VariablePattern")
            ELSE IF tree[n].type = "MemberExpression" THEN Call(n, "MemberPattern")
            ELSE Call(n, NoTag))
    [] tag = "VariablePattern" -> Ok(ignore(tree, n))
    [] tag = "MemberPattern" -> Ok(skipThrough(tree, n))
    [] tag = "RestElement" -> Ok(Call(f.argument, "Pattern"))
    [] tag = "ArrayPattern" -> Ok(EachPresent(l.elements, "Pattern"))
    [] tag = "ObjectPattern" -> Ok(PropsCalls(tree, l.properties))
    [] tag = "Expression" -> Ok(skipThrough(tree, n))
    [] tag \in {"ThisExpression", "Super", "MetaProperty", "TemplateElement"} ->
         Ok(ignore(tree, n))
    [] tag = "ArrayExpression" -> Ok(EachPresent(l.elements, "Expression"))
    [] tag = "ObjectExpression" -> Ok(Each(l.properties, NoTag))
    [] tag = "SequenceExpression" -> Ok(Each(l.expressions, "Expression"))
    [] tag = "TemplateLiteral" ->
         Ok(Each(l.quasis, NoTag) \o Each(l.expressions, "Expression"))
    [] tag \in {"UnaryExpression", "UpdateExpression"} ->
         Ok(Call(f.argument, "Expression"))
    [] tag \in {"BinaryExpression", "LogicalExpression"} ->
         Ok(Call(f.left, "Expression") \o Call(f.right, "Expression"))
    [] tag \in {"AssignmentExpression", "AssignmentPattern"} ->
         Ok(Call(f.left, "Pattern") \o Call(f.right, "Expression"))
    [] tag = "ConditionalExpression" ->
         Ok(Call(f.test, "Expression") \o Call(f.consequent, "Expression")
            \o Call(f.alternate, "Expression"))
    [] tag \in {"NewExpression", "CallExpression"} ->
         Ok(Call(f.callee, "Expression") \o Each(l.arguments, "Expression"))
    [] tag = "MemberExpression" ->
         Ok(Call(f.object, "Expression")
            \o (IF b.computed THEN Call(f.property, "Expression") ELSE <<>>))
    [] tag \in {"ExportNamedDeclaration", "ExportDefaultDeclaration"} ->
         Ok(ExportCalls(tree, n))
    [] tag = "ExportAllDeclaration" ->
         Ok(Opt(f.exported, NoTag) \o Call(f.source, "Expression"))
    [] tag = "ImportDeclaration" ->
         Ok(Each(l.specifiers, NoTag) \o Call(f.source, "Expression"))
    [] tag = "ImportExpression" -> Ok(Call(f.source, "Expression"))
    [] tag \in {"ImportSpecifier", "ImportDefaultSpecifier",
                "ImportNamespaceSpecifier", "Identifier", "PrivateIdentifier",
                "Literal"} ->
         Ok(ignore(tree, n))
    [] tag = "TaggedTemplateExpression" ->
         Ok(Call(f.tag, "Expression") \o Call(f.quasi, "Expression"))
    [] tag \in {"ClassDeclaration", "ClassExpression"} -> Ok(Call(n, "Class"))
    [] tag = "Class" ->
         Ok(Opt(f.id, "Pattern") \o Opt(f.superClass, "Expression")
            \o Call(f.body, NoTag))
    [] tag = "ClassBody" -> Ok(Each(l.body, NoTag))
    [] tag \in {"MethodDefinition", "PropertyDefinition", "Property"} ->
         Ok(KeyValueCalls(tree, n))

(***************************************************************************)
(* Table objects.  A table is None or an instance of Base: obj is the      *)
(* object's identity, inst the tags set on the instance by setattr.  A     *)
(* function is a method of class Base or a function of the caller.         *)
(***************************************************************************)
BaseFn(tag) == [cls |-> "Base", name |-> tag]
CustomFn(tag) == [cls |-> "custom", name |-> tag]

NoTable == [obj |-> 0, inst |-> {}]
\* Base(), line 208: a fresh instance; id names the object
Base(id) == [obj |-> id, inst |-> {}]

\* baseVisitor or Base()
OrBase(baseVisitor, id) == IF baseVisitor = NoTable THEN Base(id) ELSE baseVisitor

\* visitor[key], Base.__getitem__: getattr(Base, key) reads the class
Lookup(visitor, key) ==
  IF visitor = NoTable THEN [raise |-> "TypeError", fn |-> BaseFn("")]
  ELSE IF key = BuiltinType THEN [raise |-> "TypeError", fn |-> BaseFn("")]
  ELSE IF key \in BaseTags THEN [raise |-> "", fn |-> BaseFn(key)]
  ELSE [raise |-> "AttributeError", fn |-> BaseFn("")]

\* make(funcs, baseVisitor): funcs maps each of its tags K to CustomFn(K)
make(funcs, baseVisitor) ==
  LET visitor == OrBase(baseVisitor, 2)
  IN [obj |-> visitor.obj, inst |-> visitor.inst \cup funcs]

\* fn(node, st, c)
Apply(fn, tree, n) ==
  IF fn.cls = "Base" THEN BaseEntry(fn.name, tree, n)
  ELSE Ok(<<>>)

\* override or node.type
Resolve(override, tree, n) == IF override # NoTag THEN override ELSE tree[n].type

(***************************************************************************)
(* Tests of the position queries.  A test argument is a tag string, a      *)
(* falsy value, or a predicate of the caller; a predicate is given by the  *)
(* tags it accepts.                                                        *)
(***************************************************************************)
StrTest(tag) == [kind |-> "str", acc |-> {tag}]
NoTest == [kind |-> "none", acc |-> {}]
FnTest(acc) == [kind |-> "fn", acc |-> acc]

\* makeTest(test): the callable returned, with the number of parameters it takes
makeTest(test) ==
  IF test.kind = "str" THEN [params |-> 1, acc |-> test.acc, all |-> FALSE]
  ELSE IF test.kind = "none" THEN [params |-> 0, acc |-> {}, all |-> TRUE]
  ELSE [params |-> 2, acc |-> test.acc, all |-> FALSE]

\* test(_type, node): a call with two arguments
CallTest(fn, type) ==
  IF fn.params # 2 THEN [raise |-> "TypeError", value |-> FALSE]
  ELSE [raise |-> "", value |-> fn.all \/ type \in fn.acc]

\* class Found: a plain class, not derived from BaseException
FoundIsException == FALSE

\* raise Found(node, st): the exception that propagates
RaiseFound(n, st) ==
  IF FoundIsException THEN [exc |-> "Found", node |-> n, state |-> st]
  ELSE [exc |-> "TypeError", node |-> None, state |-> ""]

Exc(name) == [exc |-> name, node |-> None, state |-> ""]

(***************************************************************************)
(* State.                                                                  *)
(***************************************************************************)
VARIABLES
  op,         \* the function called
  ast,        \* the tree passed as node
  args,       \* the other arguments of the call
  stack,      \* work stack of pending c invocations and c remainders
  ancestors,  \* the ancestors list of ancestor / fullAncestor
  last,       \* the variable last of full
  log,        \* the callbacks fired so far, in order, with their arguments
  trace,      \* the (node, tag) pairs c has resolved so far, in order
  status,     \* "running", "returned" or "raised"
  result      \* the value returned or the exception raised

vars == <<op, ast, args, stack, ancestors, last, log, trace, status, result>>

NoState == ""
States == {NoState, "S"}

\* a pending invocation of c with nargs positional arguments: c(node, st) or
\* c(node, st, override)
CallItem(n, override, nargs) ==
  [k |-> "call", node |-> n, tag |-> override, isNew |-> FALSE, nargs |-> nargs]
\* the remainder of an invocation of c, after the table entry has returned
PostItem(n, type, isNew) ==
  [k |-> "post", node |-> n, tag |-> type, isNew |-> isNew, nargs |-> 3]
\* the calls a table entry makes: c(x, st) where it names no tag
Items(calls) ==
  [i \in 1..Len(calls) |->
     CallItem(calls[i][1], calls[i][2], IF calls[i][2] = NoTag THEN 2 ELSE 3)]

NoResult == [node |-> None, state |-> NoState, exc |-> "", table |-> NoTable]
FoundResult(n, st) == [node |-> n, state |-> st, exc |-> "", table |-> NoTable]
ExcResult(name) == [node |-> None, state |-> NoState, exc |-> name, table |-> NoTable]
TableResult(t) == [node |-> None, state |-> NoState, exc |-> "", table |-> t]

\* baseVisitor[key](node, st, c): the lookup, then the invocation
Enter(visitor, key, n) ==
  LET lk == Lookup(visitor, key)
  IN IF lk.raise # "" THEN Raise(lk.raise) ELSE Apply(lk.fn, ast, n)

Top(seq) == IF Len(seq) - 1 < 0 THEN None ELSE seq[Len(seq)]
Pop(seq) == SubSeq(seq, 1, Len(seq) - 1)
Finish(stk) == IF stk = <<>> THEN "returned" ELSE "running"

\* st or ancestors: the state, or the ancestors list itself
StOr(st) == IF st # NoState THEN st ELSE "<ancestors>"

Running(name, kind) ==
  /\ op = name
  /\ status = "running"
  /\ stack # <<>>
  /\ Head(stack).k = kind

\* an exception leaves the call: the frames are unwound
Propagate(name) ==
  /\ stack' = <<>>
  /\ status' = "raised"
  /\ result' = ExcResult(name)

(***************************************************************************)
(* Inputs.                                                                 *)
(***************************************************************************)
VisitorTags ==
  {"Identifier", "Literal", "Statement", "Expression", "Pattern",
   "VariablePattern", "SwitchCase", "Property"}
VisitorSets == {v \in SUBSET VisitorTags : Cardinality(v) <= MaxVisitors}
Overrides == {NoTag, "Statement"}
Tables == {NoTable, Base(1)}
FuncTags == {"Identifier", "Statement", "MyKind"}
Tests ==
  {StrTest("Literal"), StrTest("Identifier"), StrTest("Statement"), NoTest,
   FnTest({"Literal"}), FnTest({"Identifier", "Statement", "Program"}),
   FnTest(BaseTags)}

Nodes(tree) == DOMAIN tree
Spans(tree) == {<<tree[n].start, tree[n].end>> : n \in Nodes(tree)}
QuerySpans(tree) ==
  Spans(tree) \cup {<<s[1], s[2] - 1>> : s \in Spans(tree)}
    \cup {<<NoPos, s[2]>> : s \in Spans(tree)}
    \cup {<<s[1], NoPos>> : s \in Spans(tree)}
QueryPositions(tree) ==
  {s[1] : s \in Spans(tree)} \cup {s[2] : s \in Spans(tree)}
    \cup {0, tree[Root].end + 1}

DefaultArgs ==
  [visitors |-> {}, baseVisitor |-> NoTable, state |-> NoState,
   override |-> NoTag, funcs |-> {}, test |-> NoTest,
   start |-> NoPos, end |-> NoPos, pos |-> 0]

InitArgs(name, tree) ==
  CASE name \in {"simple", "ancestor"} ->
         {[DefaultArgs EXCEPT !.visitors = v, !.state = st, !.override = o] :
            v \in VisitorSets, st \in States, o \in Overrides}
    [] name = "full" ->
         {[DefaultArgs EXCEPT !.state = st, !.override = o, !.baseVisitor = b] :
            st \in States, o \in Overrides, b \in Tables}
    [] name = "fullAncestor" ->
         {[DefaultArgs EXCEPT !.state = st, !.baseVisitor = b] :
            st \in States, b \in Tables}
    [] name = "recursive" ->
         {[DefaultArgs EXCEPT !.funcs = fs, !.baseVisitor = b, !.override = o] :
            fs \in SUBSET FuncTags, b \in Tables, o \in Overrides}
    [] name = "make" ->
         {[DefaultArgs EXCEPT !.funcs = fs, !.baseVisitor = b] :
            fs \in SUBSET FuncTags, b \in Tables}
    [] name = "findNodeAt" ->
         {[DefaultArgs EXCEPT !.test = t, !.start = s[1], !.end = s[2]] :
            t \in Tests, s \in QuerySpans(tree)}
    [] name \in {"findNodeAround", "findNodeAfter", "findNodeBefore"} ->
         {[DefaultArgs EXCEPT !.test = t, !.pos = p, !.state = st] :
            t \in Tests, p \in QueryPositions(tree), st \in States}

Ops ==
  {"simple", "ancestor", "full", "fullAncestor", "recursive", "make",
   "findNodeAt", "findNodeAround", "findNodeAfter", "findNodeBefore"}

Init ==
  /\ op \in Ops
  /\ ast \in (IF op = "make" THEN {TreeExample} ELSE Trees)
  /\ args \in InitArgs(op, ast)
  /\ stack = IF op = "make" THEN <<>>
             ELSE <<CallItem(Root, args.override,
                             IF op \in {"simple", "ancestor", "full", "recursive"}
                               THEN 3 ELSE 2)>>
  /\ ancestors = <<>>
  /\ last = None
  /\ log = <<>>
  /\ trace = <<>>
  /\ status = "running"
  /\ result = NoResult

(***************************************************************************)
(* simple, lines 19-27.                                                    *)
(***************************************************************************)
\* a c that fires the callback before it invokes the table entry
simple_frames_preorder(calls, post) == <<post>> \o Items(calls)

\* lines 24-26: the table entry runs, with the calls of c it makes; the
\* callback is looked at after it has returned
simple_frames(calls, post) == Items(calls) \o <<post>>

\* c, lines 22-24
simple_c ==
  /\ Running("simple", "call")
  /\ LET node == Head(stack).node
         _type == Resolve(Head(stack).tag, ast, node)
         r == Enter(OrBase(args.baseVisitor, 1), _type, node)
     IN /\ trace' = Append(trace, <<node, _type>>)
        /\ IF r.raise # ""
             THEN Propagate(r.raise)
             ELSE /\ stack' = simple_frames(r.calls, PostItem(node, _type, FALSE))
                                \o Tail(stack)
                  /\ UNCHANGED <<status, result>>
  /\ UNCHANGED <<op, ast, args, ancestors, last, log>>

\* c, lines 25-26
simple_post ==
  /\ Running("simple", "post")
  /\ LET node == Head(stack).node
         _type == Head(stack).tag
     IN log' = IF _type \in args.visitors
                 THEN Append(log, [node |-> node, tag |-> _type,
                                   st |-> args.state, ancestors |-> <<>>])
                 ELSE log
  /\ stack' = Tail(stack)
  /\ status' = Finish(stack')
  /\ UNCHANGED <<op, ast, args, ancestors, last, trace, result>>

(***************************************************************************)
(* ancestor, lines 34-49.                                                  *)
(***************************************************************************)
\* c, lines 39-44
ancestor_c ==
  /\ Running("ancestor", "call")
  /\ LET node == Head(stack).node
         _type == Resolve(Head(stack).tag, ast, node)
         isNew == node # Top(ancestors)
         r == Enter(OrBase(args.baseVisitor, 1), _type, node)
     IN /\ trace' = Append(trace, <<node, _type>>)
        /\ ancestors' = IF isNew THEN Append(ancestors, node) ELSE ancestors
        /\ IF r.raise # ""
             THEN Propagate(r.raise)
             ELSE /\ stack' = Items(r.calls) \o <<PostItem(node, _type, isNew)>>
                                \o Tail(stack)
                  /\ UNCHANGED <<status, result>>
  /\ UNCHANGED <<op, ast, args, last, log>>

\* c, lines 45-48
ancestor_post ==
  /\ Running("ancestor", "post")
  /\ LET node == Head(stack).node
         _type == Head(stack).tag
     IN log' = IF _type \in args.visitors
                 THEN Append(log, [node |-> node, tag |-> _type,
                                   st |-> StOr(args.state),
                                   ancestors |-> ancestors])
                 ELSE log
  /\ ancestors' = IF Head(stack).isNew THEN Pop(ancestors) ELSE ancestors
  /\ stack' = Tail(stack)
  /\ status' = Finish(stack')
  /\ UNCHANGED <<op, ast, args, last, trace, result>>

(***************************************************************************)
(* full, lines 80-90.                                                      *)
(***************************************************************************)
\* a c that fires the callback whatever node completed last
full_fires_always(l, node) == TRUE

\* line 87: if last != node
full_fires(l, node) == l # node

\* c, lines 85-86
full_c ==
  /\ Running("full", "call")
  /\ LET node == Head(stack).node
         _type == Resolve(Head(stack).tag, ast, node)
         r == Enter(OrBase(args.baseVisitor, 1), _type, node)
     IN /\ trace' = Append(trace, <<node, _type>>)
        /\ IF r.raise # ""
             THEN Propagate(r.raise)
             ELSE /\ stack' = Items(r.calls) \o <<PostItem(node, _type, FALSE)>>
                                \o Tail(stack)
                  /\ UNCHANGED <<status, result>>
  /\ UNCHANGED <<op, ast, args, ancestors, last, log>>

\* c, lines 87-89
full_post ==
  /\ Running("full", "post")
  /\ LET node == Head(stack).node
         _type == Head(stack).tag
     IN IF full_fires(last, node)
          THEN /\ log' = Append(log, [node |-> node, tag |-> _type,
                                      st |-> args.state, ancestors |-> <<>>])
               /\ last' = node
          ELSE UNCHANGED <<log, last>>
  /\ stack' = Tail(stack)
  /\ status' = Finish(stack')
  /\ UNCHANGED <<op, ast, args, ancestors, trace, result>>

(***************************************************************************)
(* fullAncestor, lines 95-111.  Line 105 looks the builtin type up, which  *)
(* raises, so lines 106-110 never run.                                     *)
(***************************************************************************)
\* c, lines 101-105
fullAncestor_c ==
  /\ Running("fullAncestor", "call")
  /\ LET node == Head(stack).node
         _type == Resolve(Head(stack).tag, ast, node)
         isNew == node # Top(ancestors)
         r == Enter(OrBase(args.baseVisitor, 1), BuiltinType, node)
     IN /\ trace' = Append(trace, <<node, _type>>)
        /\ ancestors' = IF isNew THEN Append(ancestors, node) ELSE ancestors
        /\ IF r.raise # ""
             THEN Propagate(r.raise)
             ELSE /\ stack' = Items(r.calls) \o <<PostItem(node, BuiltinType, isNew)>>
                                \o Tail(stack)
                  /\ UNCHANGED <<status, result>>
  /\ UNCHANGED <<op, ast, args, last, log>>

(***************************************************************************)
(* recursive, lines 57-61.                                                 *)
(***************************************************************************)
\* line 58: make(funcs, baseVisitor or None) if funcs else baseVisitor
recursive_visitor(funcs, baseVisitor) ==
  IF funcs # {} THEN make(funcs, baseVisitor) ELSE baseVisitor

\* def c(node, st, override), line 59: override has no default value
recursive_c_params == 3

\* c, lines 59-60
recursive_c ==
  /\ Running("recursive", "call")
  /\ LET node == Head(stack).node
         _type == Resolve(Head(stack).tag, ast, node)
         r == Enter(recursive_visitor(args.funcs, args.baseVisitor), _type, node)
     IN IF Head(stack).nargs < recursive_c_params
          THEN Propagate("TypeError") /\ UNCHANGED trace
          ELSE /\ trace' = Append(trace, <<node, _type>>)
               /\ IF r.raise # ""
                    THEN Propagate(r.raise)
                    ELSE /\ stack' = Items(r.calls) \o Tail(stack)
                         /\ status' = Finish(stack')
                         /\ UNCHANGED result
  /\ UNCHANGED <<op, ast, args, ancestors, last, log>>

(***************************************************************************)
(* make, lines 189-193, called on its own.                                 *)
(***************************************************************************)
make_call ==
  /\ op = "make"
  /\ status = "running"
  /\ status' = "returned"
  /\ result' = TableResult(make(args.funcs, args.baseVisitor))
  /\ UNCHANGED <<op, ast, args, stack, ancestors, last, log, trace>>

(***************************************************************************)
(* Position queries, lines 117-184.                                        *)
(***************************************************************************)
\* except Exception as e: if isinstance(e, Found): return e; raise e
Handle(e) ==
  /\ stack' = <<>>
  /\ IF e.exc = "Found"
       THEN /\ status' = "returned"
            /\ result' = FoundResult(e.node, e.state)
       ELSE /\ status' = "raised"
            /\ result' = ExcResult(e.exc)

\* c returns to its caller; the query returns None when c(node, state) returns
Return ==
  /\ stack' = Tail(stack)
  /\ status' = Finish(stack')
  /\ UNCHANGED result

\* findNodeAt's c, lines 122-124
findNodeAt_c ==
  /\ Running("findNodeAt", "call")
  /\ LET node == Head(stack).node
         _type == Resolve(Head(stack).tag, ast, node)
         descend == /\ (args.start = NoPos \/ ast[node].start <= args.start)
                    /\ (args.end = NoPos \/ ast[node].end >= args.end)
         r == Enter(OrBase(args.baseVisitor, 1), _type, node)
         post == PostItem(node, _type, FALSE)
     IN /\ trace' = Append(trace, <<node, _type>>)
        /\ IF descend
             THEN IF r.raise # ""
                    THEN Handle(Exc(r.raise))
                    ELSE /\ stack' = Items(r.calls) \o <<post>> \o Tail(stack)
                         /\ UNCHANGED <<status, result>>
             ELSE /\ stack' = <<post>> \o Tail(stack)
                  /\ UNCHANGED <<status, result>>
  /\ UNCHANGED <<op, ast, args, ancestors, last, log>>

\* findNodeAt's c, lines 125-126
findNodeAt_post ==
  /\ Running("findNodeAt", "post")
  /\ LET node == Head(stack).node
         _type == Head(stack).tag
         exact == /\ (args.start = NoPos \/ ast[node].start = args.start)
                  /\ (args.end = NoPos \/ ast[node].end = args.end)
         t == CallTest(makeTest(args.test), _type)
     IN IF exact
          THEN IF t.raise # "" THEN Handle(Exc(t.raise))
               ELSE IF t.value THEN Handle(RaiseFound(node, args.state))
               ELSE Return
          ELSE Return
  /\ UNCHANGED <<op, ast, args, ancestors, last, log, trace>>

\* findNodeAround's c, lines 141-143: nothing follows the pruning test
findNodeAround_c ==
  /\ Running("findNodeAround", "call")
  /\ LET node == Head(stack).node
         _type == Resolve(Head(stack).tag, ast, node)
     IN /\ trace' = Append(trace, <<node, _type>>)
        /\ IF ast[node].start > args.pos \/ ast[node].end < args.pos
             THEN Return
             ELSE Return
  /\ UNCHANGED <<op, ast, args, ancestors, last, log>>

\* findNodeAfter's c, lines 157-162
findNodeAfter_c ==
  /\ Running("findNodeAfter", "call")
  /\ LET node == Head(stack).node
         _type == Resolve(Head(stack).tag, ast, node)
         t == CallTest(makeTest(args.test), _type)
         r == Enter(OrBase(args.baseVisitor, 1), BuiltinType, node)
     IN IF ast[node].end < args.pos
          THEN Return /\ UNCHANGED trace
          ELSE /\ trace' = Append(trace, <<node, _type>>)
               /\ IF ast[node].start >= args.pos /\ t.raise # ""
                    THEN Handle(Exc(t.raise))
                  ELSE IF ast[node].start >= args.pos /\ t.value
                    THEN Handle(RaiseFound(node, args.state))
                  ELSE IF r.raise # ""
                    THEN Handle(Exc(r.raise))
                  ELSE /\ stack' = Items(r.calls) \o Tail(stack)
                       /\ status' = Finish(stack')
                       /\ UNCHANGED result
  /\ UNCHANGED <<op, ast, args, ancestors, last, log>>

\* findNodeBefore's c, lines 177-182.  _max is assigned in c (line 181)
\* without a nonlocal declaration, so it is a local of c, unbound when line
\* 180 reads it; no handler surrounds c(node, state).
findNodeBefore_c ==
  /\ Running("findNodeBefore", "call")
  /\ LET node == Head(stack).node
         _type == Resolve(Head(stack).tag, ast, node)
         r == Enter(OrBase(args.baseVisitor, 1), BuiltinType, node)
     IN IF ast[node].start > args.pos
          THEN Return /\ UNCHANGED trace
          ELSE /\ trace' = Append(trace, <<node, _type>>)
               /\ IF ast[node].end <= args.pos
                    THEN Propagate("UnboundLocalError")
                  ELSE IF r.raise # ""
                    THEN Propagate(r.raise)
                  ELSE /\ stack' = Items(r.calls) \o Tail(stack)
                       /\ status' = Finish(stack')
                       /\ UNCHANGED result
  /\ UNCHANGED <<op, ast, args, ancestors, last, log>>

Next ==
  \/ simple_c
  \/ simple_post
  \/ ancestor_c
  \/ ancestor_post
  \/ full_c
  \/ full_post
  \/ fullAncestor_c
  \/ recursive_c
  \/ make_call
  \/ findNodeAt_c
  \/ findNodeAt_post
  \/ findNodeAround_c
  \/ findNodeAfter_c
  \/ findNodeBefore_c

Spec == Init /\ [][Next]_vars

(***************************************************************************)
(* The tree as a structure: children, parents, paths.                      *)
(***************************************************************************)
Kids(tree, n) ==
  ({tree[n].f[k] : k \in DOMAIN tree[n].f}
     \cup UNION {{tree[n].l[k][i] : i \in DOMAIN tree[n].l[k]} : k \in DOMAIN tree[n].l})
    \ {None}

\* the parent of each node, None for the root
ParentMap(tree) ==
  LET kids == [p \in Nodes(tree) |-> Kids(tree, p)]
  IN [n \in Nodes(tree) |->
        IF \E p \in Nodes(tree) : n \in kids[p]
          THEN CHOOSE p \in Nodes(tree) : n \in kids[p]
          ELSE None]

RECURSIVE PathIn(_, _)
PathIn(par, n) ==
  IF par[n] = None THEN <<n>> ELSE Append(PathIn(par, par[n]), n)

Range(seq) == {seq[i] : i \in DOMAIN seq}

\* for each tree and node, the path from the root to the node, inclusive
RootPaths ==
  [tree \in Trees |->
     LET par == ParentMap(tree) IN [n \in Nodes(tree) |-> PathIn(par, n)]]

RootPath(tree, n) == RootPaths[tree][n]

ProperDescendant(tree, d, n) == d # n /\ n \in Range(RootPath(tree, d))

\* for each tree and node, the proper ancestors of the node
ProperAncestors ==
  [tree \in Trees |-> [d \in Nodes(tree) |-> Range(RootPaths[tree][d]) \ {d}]]

Fired(n) == {i \in DOMAIN log : log[i].node = n}
Dispatched == {trace[i][1] : i \in DOMAIN trace}
OnStack(n) == \E k \in DOMAIN stack : stack[k].node = n

\* the test a query is asked to apply, as the caller means it
Passes(test, tag) == test.kind = "none" \/ tag \in test.acc

\* The traversal through the default table from c(n, st, override): the
\* (node, tag) pairs resolved, in order, and whether it ran to its end.
RECURSIVE DefaultWalk(_, _, _)
RECURSIVE DefaultWalkAll(_, _)
DefaultWalk(tree, n, override) ==
  LET tag == Resolve(override, tree, n)
      r == IF tag \in BaseTags THEN BaseEntry(tag, tree, n) ELSE Raise("AttributeError")
      rest == DefaultWalkAll(tree, r.calls)
  IN IF r.raise # "" THEN [tr |-> << <<n, tag>> >>, ok |-> FALSE]
     ELSE [tr |-> << <<n, tag>> >> \o rest.tr, ok |-> rest.ok]
DefaultWalkAll(tree, calls) ==
  IF calls = <<>> THEN [tr |-> <<>>, ok |-> TRUE]
  ELSE LET h == DefaultWalk(tree, calls[1][1], calls[1][2])
           rest == DefaultWalkAll(tree, Tail(calls))
       IN IF ~h.ok THEN h ELSE [tr |-> h.tr \o rest.tr, ok |-> rest.ok]

(***************************************************************************)
(* Claims.                                                                 *)
(***************************************************************************)

\* C1: simple is post-order.  Once a callback has fired for a node n, the
\* table entry of n has returned: no invocation of c for a proper descendant
\* of n is pending or running, and so every callback fired for a proper
\* descendant of n comes before every callback fired for n.
C1_SimplePostOrder ==
  op = "simple" =>
    LET above == ProperAncestors[ast]
    IN /\ \A i \in DOMAIN log : \A k \in DOMAIN stack :
            log[i].node \notin above[stack[k].node]
       /\ \A i \in DOMAIN log : \A j \in DOMAIN log :
            log[i].node \in above[log[j].node] => j < i

\* a callback has fired for a node after one for a proper descendant of it
C1_Witness ==
  /\ op = "simple"
  /\ \E i \in DOMAIN log : \E j \in DOMAIN log :
       i < j /\ ProperDescendant(ast, log[i].node, log[j].node)

\* C2: simple with the default table fires the callback registered for a tag
\* T on every node of the tree whose type is T.
C2_SimpleCoverage ==
  (op = "simple" /\ status = "returned") =>
    \A T \in args.visitors : \A n \in Nodes(ast) :
      ast[n].type = T => \E i \in DOMAIN log : log[i].node = n /\ log[i].tag = T

\* C3: whenever a callback of ancestor fires for a node n, the ancestor
\* sequence it is passed is the path of the tree from the root to n,
\* inclusive: n is its last element and no node appears twice.
C3_AncestorPath ==
  op = "ancestor" =>
    \A i \in DOMAIN log : log[i].ancestors = RootPath(ast, log[i].node)

C5_FullAncestor ==
  (op = "fullAncestor" /\ status # "running") =>
    /\ status = "returned"
    /\ \A n \in Dispatched : Cardinality(Fired(n)) = 1
    /\ \A i \in DOMAIN log : \A j \in DOMAIN log :
         ProperDescendant(ast, log[j].node, log[i].node) => j < i
    /\ \A i \in DOMAIN log : Top(log[i].ancestors) = log[i].node

\* C6: in the table make({K: f}, table) returns, the lookup of K gives f and
\* the lookup of any other tag gives what it gives in the base table.
C6_MakeOverrides ==
  (op = "make" /\ status = "returned") =>
    /\ \A K \in args.funcs :
         Lookup(result.table, K) = [raise |-> "", fn |-> CustomFn(K)]
    /\ \A t \in BaseTags \ args.funcs :
         Lookup(result.table, t) = Lookup(OrBase(args.baseVisitor, 2), t)

\* C7: recursive with an empty mapping and no base table is the traversal
\* through the default table: it resolves the same (node, tag) pairs in the
\* same order and completes normally when that traversal does.
C7_RecursiveDefault ==
  (op = "recursive" /\ args.funcs = {} /\ args.baseVisitor = NoTable
     /\ status # "running") =>
    LET d == DefaultWalk(ast, Root, args.override)
    IN /\ trace = d.tr
       /\ d.ok => status = "returned"

\* C8: findNodeAt returns the innermost visited node whose span is exactly
\* [start, end] and that passes the test, with the state, and returns
\* absence when no visited node has that span and passes the test.
C8_FindNodeAt ==
  (op = "findNodeAt" /\ status # "running") =>
    LET exact(n) == /\ (args.start = NoPos \/ ast[n].start = args.start)
                    /\ (args.end = NoPos \/ ast[n].end = args.end)
        cands == {trace[i][1] : i \in {j \in DOMAIN trace :
                    exact(trace[j][1]) /\ Passes(args.test, trace[j][2])}}
    IN /\ status = "returned"
       /\ IF cands = {} THEN result = NoResult
          ELSE /\ result.node \in cands
               /\ \A m \in cands : ~ProperDescendant(ast, m, result.node)
               /\ result.state = args.state

\* C9: findNodeBefore returns the node of maximal end among the nodes of the
\* traversal that end at or before pos and pass the test, with the state,
\* and absence only when there is none.
C9_FindNodeBefore ==
  (op = "findNodeBefore" /\ status # "running") =>
    LET d == DefaultWalk(ast, Root, NoTag).tr
        cands == {d[i][1] : i \in {j \in DOMAIN d :
                    ast[d[j][1]].end <= args.pos /\ Passes(args.test, d[j][2])}}
    IN /\ status = "returned"
       /\ IF cands = {} THEN result = NoResult
          ELSE /\ result.node \in cands
               /\ \A m \in cands : ast[m].end <= ast[result.node].end
               /\ result.state = args.state

\* C10: each of the four position queries ends by returning a found result
\* or absence; no exception leaves the call.
C10_QueriesReturn ==
  (op \in {"findNodeAt", "findNodeAround", "findNodeAfter", "findNodeBefore"}
     /\ status # "running") =>
    status = "returned"
====
